---- MODULE Spec2Model ----
(***************************************************************************)
(* Extraction diagnostics and worker health: the DebugLogger session       *)
(* tracker (src/server/utils/debug-logger.ts) and the MemoryMonitor /      *)
(* ProcessRecyclingManager pair (src/unnamed/part_000).                    *)
(*                                                                         *)
(* Conventions.  A JavaScript object is a TLA+ function from field names   *)
(* to values; a field whose value is undefined is absent from the domain,  *)
(* so the spread {...a, ...b} is the function merge b @@ a.  A handler     *)
(* runs at one reading of the clock (now); Tick advances the clock between *)
(* handlers.  A heap measurement is kept in bytes: heapUsed / 1024 / 1024  *)
(* is exact in binary floating point, so h/1024/1024 > m is h > m*1024^2.  *)
(* lastCall, ret and threw record the most recent call, what it returned   *)
(* and whether it raised; completions, wasReset and exhausted are history  *)
(* variables of the recycling manager.  workers is the state of the        *)
(* pipeline that calls the manager after each completed task.              *)
(***************************************************************************)
EXTENDS Integers, Sequences, FiniteSets, TLC

VARIABLES
    tasksCompleted,     \* ProcessRecyclingManager.tasksCompleted
    maxTasksPerCycle,   \* ProcessRecyclingManager.maxTasksPerCycle
    currentSession,     \* DebugLogger.currentSession: imageId -> session
    sessionFiles,       \* <imageId>_<Date.now()>.json files: key -> content
    summary,            \* summary.jsonl: sequence of summary lines
    artifacts,          \* diagnostic artifact files written by saveDiagnostics
    now,                \* Date.now()
    lastCall,           \* the most recent call and what it observed
    ret,                \* its boolean return value (FALSE for void)
    threw,              \* TRUE when it raised
    completions,        \* history: recordTaskComplete calls since construction / reset
    wasReset,           \* history: reset has been called
    exhausted,          \* history: why shouldRecycle last returned true since reset
    history,            \* history of each live session: the calls made since its start
    started,            \* history: the number of startImageSession calls
    workers             \* pipeline: where each worker stands in the completion protocol

vars == <<tasksCompleted, maxTasksPerCycle, currentSession, sessionFiles, summary,
          artifacts, now, lastCall, ret, threw, completions, wasReset, exhausted,
          history, started, workers>>

pipelineVars == <<workers>>
managerVars == <<tasksCompleted, maxTasksPerCycle, completions, wasReset, exhausted,
                 pipelineVars>>
historyVars == <<history, started>>
storeVars == <<sessionFiles, summary, artifacts>>

----------------------------------------------------------------------------
(* Bounds of the model *)

MaxTasks == 4          \* cap on the task counter
MaxCycle == 3          \* maxTasksPerCycle is drawn from 0..MaxCycle
MaxTime == 2           \* the clock runs 1..MaxTime
MaxEnds == 1           \* sessions persisted by end
MaxStarts == 2         \* startImageSession calls
MaxWorkers == 2        \* workers of the pipeline that complete tasks

(* Program constants *)

memoryThresholdMB == 300
BytesPerMB == 1024 * 1024

Workers == 1..MaxWorkers
TaskIds == {"img1", "img2"}
NoId == ""             \* imageId omitted (undefined is falsy, like "")
JobId == "job1"
Url == "https://example.test/1"

\* process.memoryUsage().heapUsed, in bytes: just below, at and above the threshold
HeapSamples == { memoryThresholdMB * BytesPerMB - 1,
                 memoryThresholdMB * BytesPerMB,
                 memoryThresholdMB * BytesPerMB + 1 }

Empty == [k \in {} |-> 0]

\* {...a, ...b}
Merge(a, b) == b @@ a

\* x.toFixed(2) and Math.round(x * 100) / 100 of bytes / 1024 / 1024, in hundredths of a MB
Round2MB(bytes) ==
    (bytes \div BytesPerMB) * 100
      + (((bytes % BytesPerMB) * 200 + BytesPerMB) \div (2 * BytesPerMB))

----------------------------------------------------------------------------
(* DebugLogger.recordProcessState *)

RecordProcessStateUpsert(sessions, imageId, state) ==
    IF imageId \notin DOMAIN sessions
    THEN (imageId :> [processState |-> state]) @@ sessions
    ELSE [sessions EXCEPT ![imageId].processState = Merge(@, state)]

RecordProcessStateReplace(sessions, imageId, state) ==
    IF imageId \notin DOMAIN sessions
    THEN sessions
    ELSE [sessions EXCEPT ![imageId].processState = state]

RecordProcessStateOn(sessions, imageId, state) ==
    IF imageId \notin DOMAIN sessions
    THEN sessions
    ELSE [sessions EXCEPT ![imageId].processState = Merge(@, state)]

----------------------------------------------------------------------------
(* MemoryMonitor and ProcessRecyclingManager *)

MonitorShouldRecycleGe(heapBytes, maxMemoryMB) ==
    heapBytes >= maxMemoryMB * BytesPerMB

MonitorShouldRecycle(heapBytes, maxMemoryMB) ==
    heapBytes > maxMemoryMB * BytesPerMB

TaskCountExceededGt == tasksCompleted > maxTasksPerCycle

TaskCountExceededEq == tasksCompleted = maxTasksPerCycle

TaskCountExceeded == tasksCompleted >= maxTasksPerCycle

RecycleReasonMemoryFirst(taskCountExceeded, memoryExceeded, heapBytes) ==
    IF memoryExceeded
    THEN <<"memory threshold", Round2MB(heapBytes), memoryThresholdMB>>
    ELSE IF taskCountExceeded
         THEN <<"task limit", tasksCompleted, maxTasksPerCycle>>
         ELSE <<"none", 0, 0>>

RecycleReason(taskCountExceeded, memoryExceeded, heapBytes) ==
    IF taskCountExceeded
    THEN <<"task limit", tasksCompleted, maxTasksPerCycle>>
    ELSE IF memoryExceeded
         THEN <<"memory threshold", Round2MB(heapBytes), memoryThresholdMB>>
         ELSE <<"none", 0, 0>>

RecordTaskComplete ==
    /\ tasksCompleted < MaxTasks
    /\ tasksCompleted' = tasksCompleted + 1
    /\ completions' = completions + 1
    /\ lastCall' = [op |-> "recordTaskComplete", imageId |-> NoId]
    /\ ret' = FALSE
    /\ threw' = FALSE
    /\ UNCHANGED <<maxTasksPerCycle, wasReset, exhausted, currentSession, storeVars, now,
                   historyVars>>

ShouldRecycleMemoryOnly(imageId, heapUsed, monitored) ==
    LET taskCountExceeded == TaskCountExceeded
        memoryExceeded == MonitorShouldRecycle(monitored, memoryThresholdMB)
        recycleDecision == memoryExceeded
        recycleReason == RecycleReason(taskCountExceeded, memoryExceeded, heapUsed)
    IN  /\ currentSession' =
             IF recycleDecision /\ imageId # NoId
             THEN RecordProcessStateOn(currentSession, imageId,
                      [taskNumber |-> tasksCompleted,
                       memoryMB |-> heapUsed,
                       recycleReason |-> recycleReason,
                       willRecycle |-> TRUE])
             ELSE currentSession
        /\ ret' = recycleDecision
        /\ threw' = FALSE
        /\ lastCall' = [op |-> "shouldRecycle", imageId |-> imageId,
                        monitored |-> monitored, reason |-> recycleReason[1],
                        before |-> exhausted]
        /\ exhausted' = IF taskCountExceeded \/ exhausted = "task" THEN "task"
                        ELSE IF memoryExceeded THEN "memory"
                        ELSE exhausted
        /\ UNCHANGED <<tasksCompleted, maxTasksPerCycle, completions, wasReset,
                       storeVars, now, historyVars>>

\* heapUsed is the measurement of line 96, monitored the one MemoryMonitor takes
ShouldRecycle(imageId, heapUsed, monitored) ==
    LET taskCountExceeded == TaskCountExceeded
        memoryExceeded == MonitorShouldRecycle(monitored, memoryThresholdMB)
        recycleDecision == taskCountExceeded \/ memoryExceeded
        recycleReason == RecycleReason(taskCountExceeded, memoryExceeded, heapUsed)
    IN  /\ currentSession' =
             IF recycleDecision /\ imageId # NoId
             THEN RecordProcessStateOn(currentSession, imageId,
                      [taskNumber |-> tasksCompleted,
                       memoryMB |-> heapUsed,
                       recycleReason |-> recycleReason,
                       willRecycle |-> TRUE])
             ELSE currentSession
        /\ ret' = recycleDecision
        /\ threw' = FALSE
        /\ lastCall' = [op |-> "shouldRecycle", imageId |-> imageId,
                        monitored |-> monitored, reason |-> recycleReason[1],
                        before |-> exhausted]
        /\ exhausted' = IF taskCountExceeded \/ exhausted = "task" THEN "task"
                        ELSE IF memoryExceeded THEN "memory"
                        ELSE exhausted
        /\ UNCHANGED <<tasksCompleted, maxTasksPerCycle, completions, wasReset,
                       storeVars, now, historyVars>>

ResetKeepsCounter(imageId, heapUsed) ==
    LET prevTasks == tasksCompleted
    IN  /\ tasksCompleted' = tasksCompleted
        /\ currentSession' =
             IF imageId # NoId
             THEN RecordProcessStateOn(currentSession, imageId,
                      [taskNumber |-> 0,
                       memoryMB |-> heapUsed,
                       browserRestart |-> TRUE,
                       previousTasksCompleted |-> prevTasks])
             ELSE currentSession
        /\ completions' = 0
        /\ wasReset' = TRUE
        /\ exhausted' = "no"
        /\ lastCall' = [op |-> "reset", imageId |-> imageId]
        /\ ret' = FALSE
        /\ threw' = FALSE
        /\ UNCHANGED <<maxTasksPerCycle, storeVars, now, historyVars>>

Reset(imageId, heapUsed) ==
    LET prevTasks == tasksCompleted
    IN  /\ tasksCompleted' = 0
        /\ currentSession' =
             IF imageId # NoId
             THEN RecordProcessStateOn(currentSession, imageId,
                      [taskNumber |-> 0,
                       memoryMB |-> heapUsed,
                       browserRestart |-> TRUE,
                       previousTasksCompleted |-> prevTasks])
             ELSE currentSession
        /\ completions' = 0
        /\ wasReset' = TRUE
        /\ exhausted' = "no"
        /\ lastCall' = [op |-> "reset", imageId |-> imageId]
        /\ ret' = FALSE
        /\ threw' = FALSE
        /\ UNCHANGED <<maxTasksPerCycle, storeVars, now, historyVars>>

getTasksCompleted == tasksCompleted

----------------------------------------------------------------------------
(* DebugLogger: inputs *)

MaxAttempts == 2       \* recordMethodAttempt calls per session
MaxResults == 2        \* recordMethodResult calls per session

Ranks == 1..MaxAttempts
StageNames == {"navigation", "canvasExtraction", "imageStorage"}
MethodNames == {"viewport-render", "canvas-toDataURL"}
NoError == ""          \* error omitted
Errors == {NoError, "timeout"}
\* Not-a-number and JSON's null stand among the numbers as two values that no
\* count, time or size takes
NaN == -1
Null == -2

\* process.memoryUsage()
MemoryUsages ==
    { [heapUsed |-> 150 * BytesPerMB + 5243, heapTotal |-> 200 * BytesPerMB,
       external |-> 2 * BytesPerMB, rss |-> 260 * BytesPerMB + 1] }

\* the details argument of recordCheckpoint
DetailsOf(stageName) ==
    IF stageName = "navigation"
    THEN {Empty, [navigationAttempt |-> 1, maxAttempts |-> 3]}
    ELSE IF stageName = "canvasExtraction"
    THEN {Empty, [mode |-> "full", totalAttempts |-> 0, methods |-> <<>>]}
    ELSE {Empty, [saved |-> TRUE]}

\* the state argument of recordProcessState
PartialStates == { [browserRestarts |-> 1], [taskNumber |-> 1, queuePosition |-> 2] }

\* success, error, errorStack, skipped, skipReason of recordOutcome
Outcomes ==
    { [success |-> TRUE],
      [success |-> TRUE, skipped |-> FALSE],
      [success |-> FALSE, error |-> "boom", errorStack |-> "at extract"],
      [success |-> FALSE, skipped |-> TRUE, skipReason |-> "duplicate"] }

\* screenshotBuffer, htmlSnapshot, consoleLogs, networkErrors of saveDiagnostics
DiagnosticArgs ==
    { Empty,
      [screenshotBuffer |-> "png", htmlSnapshot |-> "<html>"],
      [consoleLogs |-> <<"log">>, networkErrors |-> <<"net">>] }

Optional(name, object, key) ==
    IF key \in DOMAIN object THEN name :> object[key] ELSE Empty

Without(object, key) == [k \in DOMAIN object \ {key} |-> object[k]]

Live(imageId) == imageId \in DOMAIN currentSession

\* attempts: the ranks passed to recordMethodAttempt; results: the rank and success
\* passed to recordMethodResult; orderly: no attempt was begun after a result;
\* checkpoints: the stage names passed to recordCheckpoint; late: a checkpoint was
\* made at a later reading of the clock than the end time, and no finish since;
\* finish: the outcome passed to the most recent recordOutcome, <<>> when none
NewHistory == [attempts |-> <<>>, results |-> <<>>, orderly |-> TRUE,
               checkpoints |-> {}, late |-> FALSE, finish |-> <<>>]

----------------------------------------------------------------------------
(* DebugLogger: operations *)

NewSession(imageId, jobId, url) ==
    [imageId |-> imageId, jobId |-> jobId, url |-> url, startTime |-> now,
     stages |-> Empty,
     processState |-> [browserRestarts |-> 0],
     outcome |-> [success |-> FALSE]]

StartImageSessionOnce(imageId) ==
    /\ started < MaxStarts
    /\ started' = started + 1
    /\ currentSession' =
         IF Live(imageId) THEN currentSession
         ELSE (imageId :> NewSession(imageId, JobId, Url)) @@ currentSession
    /\ history' = IF Live(imageId) THEN history ELSE (imageId :> NewHistory) @@ history
    /\ lastCall' = [op |-> "startImageSession", imageId |-> imageId,
                    found |-> Live(imageId)]
    /\ ret' = FALSE
    /\ threw' = FALSE
    /\ UNCHANGED <<managerVars, storeVars, now>>

StartImageSessionAlone(imageId) ==
    /\ started < MaxStarts
    /\ started' = started + 1
    /\ currentSession' = (imageId :> NewSession(imageId, JobId, Url))
    /\ history' = (imageId :> NewHistory)
    /\ lastCall' = [op |-> "startImageSession", imageId |-> imageId,
                    found |-> Live(imageId)]
    /\ ret' = FALSE
    /\ threw' = FALSE
    /\ UNCHANGED <<managerVars, storeVars, now>>

StartImageSession(imageId) ==
    /\ started < MaxStarts
    /\ started' = started + 1
    /\ currentSession' = (imageId :> NewSession(imageId, JobId, Url)) @@ currentSession
    /\ history' = (imageId :> NewHistory) @@ history
    /\ lastCall' = [op |-> "startImageSession", imageId |-> imageId,
                    found |-> Live(imageId)]
    /\ ret' = FALSE
    /\ threw' = FALSE
    /\ UNCHANGED <<managerVars, storeVars, now>>

MemorySnapshot(mem) ==
    [heapUsed |-> Round2MB(mem.heapUsed), heapTotal |-> Round2MB(mem.heapTotal),
     external |-> Round2MB(mem.external), rss |-> Round2MB(mem.rss)]

CheckpointAbsoluteElapsed(session, stageName, mem) ==
    [name |-> stageName, timestamp |-> now, elapsed |-> now,
     memory |-> MemorySnapshot(mem)]

Checkpoint(session, stageName, mem) ==
    [name |-> stageName, timestamp |-> now, elapsed |-> now - session.startTime,
     memory |-> MemorySnapshot(mem)]

RecordCheckpoint(imageId, stageName, details, mem) ==
    /\ currentSession' =
         IF Live(imageId)
         THEN [currentSession EXCEPT ![imageId].stages =
                  (stageName :> Merge(Checkpoint(currentSession[imageId], stageName, mem),
                                      details)) @@ @]
         ELSE currentSession
    /\ history' =
         IF Live(imageId)
         THEN [history EXCEPT
                 ![imageId].checkpoints = @ \cup {stageName},
                 ![imageId].late = @ \/ ("endTime" \in DOMAIN currentSession[imageId]
                                          /\ now > currentSession[imageId].endTime)]
         ELSE history
    /\ lastCall' = [op |-> "recordCheckpoint", imageId |-> imageId,
                    found |-> Live(imageId)]
    /\ ret' = FALSE
    /\ threw' = FALSE
    /\ UNCHANGED <<managerVars, storeVars, now, started>>

\* session.stages after the lazy creation of the canvasExtraction stage
WithCanvasStage(session, startTime) ==
    IF "canvasExtraction" \in DOMAIN session.stages
    THEN session.stages
    ELSE ("canvasExtraction" :>
            [name |-> "canvasExtraction", timestamp |-> startTime,
             elapsed |-> startTime - session.startTime, mode |-> "unknown",
             totalAttempts |-> 0, methods |-> <<>>]) @@ session.stages

\* x++ : undefined and NaN give NaN
Increment(object, key) ==
    IF key \notin DOMAIN object \/ object[key] = NaN THEN NaN ELSE object[key] + 1

PushAttemptFirst(canvas, attempt) ==
    ("totalAttempts" :> Increment(canvas, "totalAttempts"))
      @@ [canvas EXCEPT !.methods = <<attempt>> \o @]

\* methods.push(attempt); totalAttempts++
PushAttempt(canvas, attempt) ==
    ("totalAttempts" :> Increment(canvas, "totalAttempts"))
      @@ [canvas EXCEPT !.methods = Append(@, attempt)]

RecordMethodAttempt(imageId, methodName, methodNumber, startTime) ==
    LET session == currentSession[imageId]
        stages == WithCanvasStage(session, startTime)
        canvas == stages["canvasExtraction"]
        attempt == [methodName |-> methodName, methodNumber |-> methodNumber,
                    startTime |-> startTime, success |-> FALSE]
        \* push on a stage that holds no methods list: TypeError
        typeError == Live(imageId) /\ "methods" \notin DOMAIN canvas
    IN  /\ Live(imageId) => Len(history[imageId].attempts) < MaxAttempts
        /\ currentSession' =
             IF Live(imageId) /\ ~typeError
             THEN [currentSession EXCEPT ![imageId].stages =
                      ("canvasExtraction" :> PushAttempt(canvas, attempt)) @@ stages]
             ELSE currentSession
        /\ history' =
             IF Live(imageId)
             THEN [history EXCEPT ![imageId].attempts = Append(@, methodNumber),
                                  ![imageId].orderly = @ /\ history[imageId].results = <<>>]
             ELSE history
        /\ lastCall' = [op |-> "recordMethodAttempt", imageId |-> imageId,
                        found |-> Live(imageId)]
        /\ ret' = FALSE
        /\ threw' = typeError
        /\ UNCHANGED <<managerVars, storeVars, now, started>>

\* methods.find((m) => m.methodNumber === methodNumber): the index, 0 when none
FindMethod(methods, methodNumber) ==
    LET hits == {i \in 1..Len(methods) : methods[i].methodNumber = methodNumber}
    IN  IF hits = {} THEN 0 ELSE CHOOSE i \in hits : \A j \in hits : i <= j

\* lines 223-228 on the method found
MethodResult(method, success, error) ==
    Merge(Without(method, "error"),
          [endTime |-> now, duration |-> now - method.startTime, success |-> success]
            @@ (IF error = NoError THEN Empty ELSE [error |-> error]))

\* lines 230-232
SetSuccessfulMethodFirstOnly(canvas, method, success) ==
    IF success /\ "successfulMethod" \notin DOMAIN canvas
    THEN ("successfulMethod" :> method.methodName) @@ canvas
    ELSE canvas

SetSuccessfulMethod(canvas, method, success) ==
    IF success THEN ("successfulMethod" :> method.methodName) @@ canvas ELSE canvas

RecordMethodResult(imageId, methodNumber, success, error) ==
    LET session == currentSession[imageId]
        hasStage == Live(imageId) /\ "canvasExtraction" \in DOMAIN session.stages
        canvas == session.stages["canvasExtraction"]
        \* find on a stage that holds no methods list: TypeError
        typeError == hasStage /\ "methods" \notin DOMAIN canvas
        i == IF hasStage /\ ~typeError THEN FindMethod(canvas.methods, methodNumber) ELSE 0
        method == MethodResult(canvas.methods[i], success, error)
    IN  /\ Live(imageId) => Len(history[imageId].results) < MaxResults
        /\ currentSession' =
             IF i # 0
             THEN [currentSession EXCEPT ![imageId].stages["canvasExtraction"] =
                      SetSuccessfulMethod([canvas EXCEPT !.methods[i] = method],
                                          method, success)]
             ELSE currentSession
        /\ history' =
             IF Live(imageId)
             THEN [history EXCEPT ![imageId].results =
                      Append(@, [rank |-> methodNumber, success |-> success])]
             ELSE history
        /\ lastCall' = [op |-> "recordMethodResult", imageId |-> imageId,
                        found |-> Live(imageId), methodNumber |-> methodNumber]
        /\ ret' = FALSE
        /\ threw' = typeError
        /\ UNCHANGED <<managerVars, storeVars, now, started>>

RecordProcessState(imageId, state) ==
    /\ currentSession' = RecordProcessStateOn(currentSession, imageId, state)
    /\ lastCall' = [op |-> "recordProcessState", imageId |-> imageId,
                    found |-> Live(imageId)]
    /\ ret' = FALSE
    /\ threw' = FALSE
    /\ UNCHANGED <<managerVars, storeVars, now, historyVars>>

RecordOutcomeEnds(imageId, outcome) ==
    /\ currentSession' = [id \in DOMAIN currentSession \ {imageId} |-> currentSession[id]]
    /\ history' = [id \in DOMAIN history \ {imageId} |-> history[id]]
    /\ lastCall' = [op |-> "recordOutcome", imageId |-> imageId,
                    found |-> Live(imageId)]
    /\ ret' = FALSE
    /\ threw' = FALSE
    /\ UNCHANGED <<managerVars, storeVars, now, started>>

RecordOutcome(imageId, outcome) ==
    /\ currentSession' =
         IF Live(imageId)
         THEN [currentSession EXCEPT ![imageId] =
                  Merge(@, [endTime |-> now,
                            totalDuration |-> now - @.startTime,
                            outcome |-> outcome])]
         ELSE currentSession
    /\ history' = IF Live(imageId)
                  THEN [history EXCEPT ![imageId].late = FALSE,
                                       ![imageId].finish = <<outcome>>]
                  ELSE history
    /\ lastCall' = [op |-> "recordOutcome", imageId |-> imageId,
                    found |-> Live(imageId)]
    /\ ret' = FALSE
    /\ threw' = FALSE
    /\ UNCHANGED <<managerVars, storeVars, now, started>>

\* join(this.sessionsDir, imageId) and the files below it
DiagnosticsDir(imageId) == <<imageId>>
ScreenshotPath(imageId) == <<imageId, "failure-screenshot.png">>
HtmlPath(imageId) == <<imageId, "failure-dom.html">>

\* io names the durable operation of the call that raises: "ok" when none does
SaveDiagnostics(imageId, args, io) ==
    LET session == currentSession[imageId]
        base == IF "diagnostics" \in DOMAIN session THEN session.diagnostics ELSE Empty
        shot == "screenshotBuffer" \in DOMAIN args
        html == "htmlSnapshot" \in DOMAIN args
        afterShot == IF shot THEN Merge(base, [screenshotPath |-> ScreenshotPath(imageId)])
                     ELSE base
        afterHtml == IF html THEN Merge(afterShot, [htmlSnapshotPath |-> HtmlPath(imageId)])
                     ELSE afterShot
        done == Merge(afterHtml, Merge(Optional("consoleLogs", args, "consoleLogs"),
                                       Optional("networkErrors", args, "networkErrors")))
    IN  /\ io \in {"ok", "mkdir", "screenshot", "html"}
        /\ io # "ok" => Live(imageId)
        /\ io = "mkdir" => DiagnosticsDir(imageId) \notin artifacts
        /\ io = "screenshot" => shot
        /\ io = "html" => html
        /\ currentSession' =
             IF ~Live(imageId) \/ io = "mkdir" THEN currentSession
             ELSE [currentSession EXCEPT ![imageId] =
                      Merge(@, [diagnostics |->
                                   CASE io = "screenshot" -> base
                                     [] io = "html" -> afterShot
                                     [] OTHER -> done])]
        /\ artifacts' =
             IF ~Live(imageId) \/ io = "mkdir" THEN artifacts
             ELSE artifacts \cup {DiagnosticsDir(imageId)}
                    \cup (IF shot /\ io # "screenshot" THEN {ScreenshotPath(imageId)} ELSE {})
                    \cup (IF html /\ io = "ok" THEN {HtmlPath(imageId)} ELSE {})
        /\ lastCall' = [op |-> "saveDiagnostics", imageId |-> imageId,
                        found |-> Live(imageId)]
        /\ ret' = FALSE
        /\ threw' = (io # "ok")
        /\ UNCHANGED <<managerVars, sessionFiles, summary, now, historyVars>>

\* A JSON document is kept as the value it denotes.  JSON.stringify drops the
\* fields that are undefined (absent here already) and writes NaN as null.
JsonNumber(field) ==
    [k \in DOMAIN field |-> IF field[k] = NaN THEN Null ELSE field[k]]

SummaryLineOutcomeSuccessOnly(session) ==
    [timestamp |-> now, imageId |-> session.imageId, jobId |-> session.jobId]
      @@ Optional("duration", session, "totalDuration")
      @@ Optional("success", session.outcome, "success")
      @@ Optional("browserRestarts", session.processState, "browserRestarts")

\* lines 347-363: the line appended to summary.jsonl
SummaryLine(session) ==
    LET canvas == IF "canvasExtraction" \in DOMAIN session.stages
                  THEN session.stages["canvasExtraction"] ELSE Empty
        metadata == IF "metadataExtraction" \in DOMAIN session.stages
                    THEN session.stages["metadataExtraction"] ELSE Empty
        memoryAtEnd == IF "memoryAtEnd" \in DOMAIN session.processState
                       THEN session.processState.memoryAtEnd ELSE Empty
    IN  [timestamp |-> now, imageId |-> session.imageId, jobId |-> session.jobId]
          @@ Optional("duration", session, "totalDuration")
          @@ Optional("success", session.outcome, "success")
          @@ Optional("skipped", session.outcome, "skipped")
          @@ Optional("error", session.outcome, "error")
          @@ Optional("successfulMethod", canvas, "successfulMethod")
          @@ JsonNumber(Optional("totalMethodAttempts", canvas, "totalAttempts"))
          @@ Optional("metadataSuccess", metadata, "success")
          @@ Optional("metadataTimedOut", metadata, "timedOut")
          @@ Optional("browserRestarts", session.processState, "browserRestarts")
          @@ Optional("memoryUsed", memoryAtEnd, "heapUsed")

\* `${imageId}_${Date.now()}.json`
SessionFile(imageId) == <<imageId, now>>

\* JSON.stringify(session, null, 2)
Stringify(session) ==
    IF "canvasExtraction" \in DOMAIN session.stages
    THEN LET canvas == session.stages["canvasExtraction"]
         IN  IF "totalAttempts" \in DOMAIN canvas /\ canvas.totalAttempts = NaN
             THEN [session EXCEPT !.stages["canvasExtraction"].totalAttempts = Null]
             ELSE session
    ELSE session

\* the content of a file whose write stopped part way: no JSON document
Truncated == [truncated |-> "{ \"imageId\": \"im"]

WellFormed(text) == "truncated" \notin DOMAIN text

\* JSON.parse of a well-formed document
Parse(text) == text

\* lines 327-330
Finalized(session) ==
    IF "endTime" \in DOMAIN session THEN session
    ELSE Merge(session, [endTime |-> now, totalDuration |-> now - session.startTime])

EndImageSessionKeepsLive(imageId, io) ==
    LET session == Finalized(currentSession[imageId])
    IN  /\ io \in {"ok", "write", "append"}
        /\ io # "ok" => Live(imageId)
        /\ Live(imageId) /\ io = "ok" => Len(summary) < MaxEnds
        /\ Live(imageId) /\ io # "write" =>
              Cardinality(DOMAIN sessionFiles \ {SessionFile(imageId)}) < MaxEnds
        /\ currentSession' =
             IF Live(imageId) THEN [currentSession EXCEPT ![imageId] = session]
             ELSE currentSession
        /\ sessionFiles' =
             IF Live(imageId) /\ io # "write"
             THEN (SessionFile(imageId) :> session) @@ sessionFiles
             ELSE sessionFiles
        /\ summary' =
             IF Live(imageId) /\ io = "ok" THEN Append(summary, SummaryLine(session))
             ELSE summary
        /\ lastCall' = [op |-> "endImageSession", imageId |-> imageId,
                        found |-> Live(imageId), io |-> io]
        /\ ret' = FALSE
        /\ threw' = (io # "ok")
        /\ UNCHANGED <<managerVars, artifacts, now, historyVars>>

EndImageSessionDeleteFirst(imageId, io, maxEnds) ==
    LET session == Finalized(currentSession[imageId])
    IN  /\ io \in {"ok", "write", "partial", "append"}
        /\ io # "ok" => Live(imageId)
        /\ Live(imageId) /\ io = "ok" => Len(summary) < maxEnds
        /\ Live(imageId) /\ io # "write" =>
              Cardinality(DOMAIN sessionFiles \ {SessionFile(imageId)}) < maxEnds
        /\ currentSession' = [id \in DOMAIN currentSession \ {imageId} |-> currentSession[id]]
        /\ history' = [id \in DOMAIN history \ {imageId} |-> history[id]]
        /\ sessionFiles' =
             IF Live(imageId) /\ io # "write"
             THEN (SessionFile(imageId) :>
                     IF io = "partial" THEN Truncated ELSE Stringify(session))
                  @@ sessionFiles
             ELSE sessionFiles
        /\ summary' =
             IF Live(imageId) /\ io = "ok" THEN Append(summary, SummaryLine(session))
             ELSE summary
        /\ lastCall' = [op |-> "endImageSession", imageId |-> imageId,
                        found |-> Live(imageId), io |-> io]
        /\ ret' = FALSE
        /\ threw' = (io # "ok")
        /\ UNCHANGED <<managerVars, artifacts, now, started>>

\* io names the durable write that raises: "write" (writeFileSync raises and
\* leaves no file), "partial" (writeFileSync raises part way and leaves a truncated
\* file), "append" (appendFileSync raises) or "ok".  maxEnds caps the files and
\* the summary lines.
EndImageSessionUpTo(imageId, io, maxEnds) ==
    LET session == Finalized(currentSession[imageId])
    IN  /\ io \in {"ok", "write", "partial", "append"}
        /\ io # "ok" => Live(imageId)
        /\ Live(imageId) /\ io = "ok" => Len(summary) < maxEnds
        /\ Live(imageId) /\ io # "write" =>
              Cardinality(DOMAIN sessionFiles \ {SessionFile(imageId)}) < maxEnds
        /\ currentSession' =
             IF ~Live(imageId) THEN currentSession
             ELSE IF io = "ok"
                  THEN [id \in DOMAIN currentSession \ {imageId} |-> currentSession[id]]
                  ELSE [currentSession EXCEPT ![imageId] = session]
        /\ history' =
             IF Live(imageId) /\ io = "ok"
             THEN [id \in DOMAIN history \ {imageId} |-> history[id]]
             ELSE history
        /\ sessionFiles' =
             IF Live(imageId) /\ io # "write"
             THEN (SessionFile(imageId) :>
                     IF io = "partial" THEN Truncated ELSE Stringify(session))
                  @@ sessionFiles
             ELSE sessionFiles
        /\ summary' =
             IF Live(imageId) /\ io = "ok" THEN Append(summary, SummaryLine(session))
             ELSE summary
        /\ lastCall' = [op |-> "endImageSession", imageId |-> imageId,
                        found |-> Live(imageId), io |-> io]
        /\ ret' = FALSE
        /\ threw' = (io # "ok")
        /\ UNCHANGED <<managerVars, artifacts, now, started>>

EndImageSession(imageId, io) == EndImageSessionUpTo(imageId, io, MaxEnds)

\* the entry of a method name that methodStats does not hold yet (lines 387-393)
NoStatistics ==
    [attempts |-> 0, successes |-> 0, failures |-> 0, avgDuration |-> 0,
     totalDuration |-> 0]

\* lines 386-404: one method of a session's canvasExtraction stage
CountMethodSuccessAlways(methodStats, method) ==
    LET name == method.methodName
        stats == IF name \in DOMAIN methodStats THEN methodStats[name] ELSE NoStatistics
    IN  (name :> [stats EXCEPT
                    !.attempts = @ + 1,
                    !.successes = @ + 1,
                    !.totalDuration =
                        IF "duration" \in DOMAIN method /\ method.duration # 0
                        THEN @ + method.duration ELSE @])
          @@ methodStats

CountMethod(methodStats, method) ==
    LET name == method.methodName
        stats == IF name \in DOMAIN methodStats THEN methodStats[name] ELSE NoStatistics
    IN  (name :> [stats EXCEPT
                    !.attempts = @ + 1,
                    !.successes = IF method.success THEN @ + 1 ELSE @,
                    !.failures = IF method.success THEN @ ELSE @ + 1,
                    !.totalDuration =
                        IF "duration" \in DOMAIN method /\ method.duration # 0
                        THEN @ + method.duration ELSE @])
          @@ methodStats

\* lines 385-405: the loop over the methods of one session
RECURSIVE CountMethods(_, _)
CountMethods(methodStats, methods) ==
    IF methods = <<>> THEN methodStats
    ELSE CountMethods(CountMethod(methodStats, Head(methods)), Tail(methods))

\* lines 384-406: one parsed session
CountSession(methodStats, session) ==
    IF /\ "canvasExtraction" \in DOMAIN session.stages
       /\ "methods" \in DOMAIN session.stages["canvasExtraction"]
    THEN CountMethods(methodStats, session.stages["canvasExtraction"].methods)
    ELSE methodStats

\* lines 377-407: the loop over the .json files of the sessions directory
RECURSIVE CountFiles(_, _)
CountFiles(methodStats, files) ==
    IF files = {} THEN methodStats
    ELSE LET file == CHOOSE f \in files : TRUE
         IN  CountFiles(CountSession(methodStats, Parse(sessionFiles[file])),
                        files \ {file})

\* totalDuration / attempts, kept as the fraction <<numerator, denominator>>
Quotient(a, b) == <<a, b>>

\* lines 409-412
WithAverages(methodStats) ==
    [name \in DOMAIN methodStats |->
        [methodStats[name] EXCEPT
           !.avgDuration = Quotient(methodStats[name].totalDuration,
                                    methodStats[name].attempts)]]

\* The result is kept in lastCall.  summary.jsonl exists once a line was appended;
\* JSON.parse of a file that holds no JSON document raises a SyntaxError.
GetMethodStatistics ==
    LET exists == summary # <<>>
        malformed == \E file \in DOMAIN sessionFiles : ~WellFormed(sessionFiles[file])
    IN  /\ lastCall' =
             IF ~exists
             THEN [op |-> "getMethodStatistics", imageId |-> NoId,
                   result |-> [message |-> "No summary data available yet"]]
             ELSE IF malformed
             THEN [op |-> "getMethodStatistics", imageId |-> NoId]
             ELSE [op |-> "getMethodStatistics", imageId |-> NoId,
                   result |-> [totalSessions |-> Len(summary),
                               methodStatistics |->
                                   WithAverages(CountFiles(Empty, DOMAIN sessionFiles))]]
        /\ ret' = FALSE
        /\ threw' = (exists /\ malformed)
        /\ UNCHANGED <<managerVars, currentSession, storeVars, now, historyVars>>

Tick ==
    /\ now < MaxTime
    /\ now' = now + 1
    /\ UNCHANGED <<managerVars, currentSession, storeVars, lastCall, ret, threw, historyVars>>

----------------------------------------------------------------------------

Init ==
    /\ tasksCompleted = 0
    /\ maxTasksPerCycle \in 0..MaxCycle
    /\ currentSession = Empty
    /\ sessionFiles = Empty
    /\ summary = <<>>
    /\ artifacts = {}
    /\ now = 1
    /\ lastCall = [op |-> "constructor", imageId |-> NoId]
    /\ ret = FALSE
    /\ threw = FALSE
    /\ completions = 0
    /\ wasReset = FALSE
    /\ exhausted = "no"
    /\ history = Empty
    /\ started = 0
    /\ workers = [w \in Workers |-> "working"]

RecycleIds == {NoId, "img1"}

NextRecycle ==
    \/ RecordTaskComplete /\ UNCHANGED pipelineVars
    \/ \E id \in RecycleIds, h \in HeapSamples, m \in HeapSamples :
          ShouldRecycle(id, h, m) /\ UNCHANGED pipelineVars
    \/ \E id \in RecycleIds, h \in HeapSamples : Reset(id, h) /\ UNCHANGED pipelineVars
    \/ StartImageSession("img1")

SpecRecycle == Init /\ [][NextRecycle]_vars

\* the logger alone: the manager is the default one, ProcessRecyclingManager()
InitLogger ==
    /\ Init
    /\ maxTasksPerCycle = 1

\* One task (img1) is started, checkpointed, finished and ended, again and again,
\* while the clock advances; the durable writes of end may fail.
StartedIds == {"img1"}
SessionStages == {"navigation", "imageStorage"}
SessionOutcomes == { [success |-> TRUE, skipped |-> FALSE] }

NextSession ==
    \/ \E id \in StartedIds : StartImageSession(id)
    \/ \E id \in StartedIds, stage \in SessionStages, mem \in MemoryUsages :
          RecordCheckpoint(id, stage, Empty, mem)
    \/ \E id \in StartedIds, outcome \in SessionOutcomes : RecordOutcome(id, outcome)
    \/ \E id \in StartedIds, io \in {"ok", "write", "append"} : EndImageSession(id, io)
    \/ Tick

SpecSession == InitLogger /\ [][NextSession]_vars

\* Two tasks are started, checkpointed, finished and ended at one reading of the
\* clock, and every operation is called for the task ids that have no live session.
NextMissing ==
    \/ \E id \in TaskIds : StartImageSession(id)
    \/ \E id \in TaskIds, mem \in MemoryUsages :
          RecordCheckpoint(id, "navigation", [navigationAttempt |-> 1, maxAttempts |-> 3], mem)
    \/ \E id \in TaskIds, outcome \in SessionOutcomes : RecordOutcome(id, outcome)
    \/ \E id \in TaskIds, io \in {"ok", "write", "append"} : EndImageSession(id, io)
    \/ \E id \in TaskIds \ DOMAIN currentSession, name \in MethodNames :
          RecordMethodAttempt(id, name, 1, now)
    \/ \E id \in TaskIds \ DOMAIN currentSession, success \in BOOLEAN :
          RecordMethodResult(id, 1, success, NoError)
    \/ \E id \in TaskIds \ DOMAIN currentSession, state \in PartialStates :
          RecordProcessState(id, state)
    \/ \E id \in TaskIds \ DOMAIN currentSession, args \in DiagnosticArgs :
          SaveDiagnostics(id, args, "ok")

SpecMissing == InitLogger /\ [][NextMissing]_vars

\* The fallback chain of one task (img1) at one reading of the clock: attempts,
\* results, and checkpoints that name the canvasExtraction stage.  The method of
\* each rank is the one the chain gives it.
ChainMethod(rank) ==
    CASE rank = 1 -> "viewport-render"
      [] rank = 2 -> "canvas-toDataURL"
      [] rank = 3 -> "canvas-toBlob"
      [] OTHER -> "element-screenshot"

NextAttempts ==
    \/ \E id \in StartedIds : StartImageSession(id)
    \/ \E id \in StartedIds, rank \in Ranks :
          RecordMethodAttempt(id, ChainMethod(rank), rank, now)
    \/ \E id \in StartedIds, rank \in Ranks, success \in BOOLEAN :
          RecordMethodResult(id, rank, success, IF success THEN NoError ELSE "timeout")
    \/ \E id \in StartedIds, mem \in MemoryUsages :
          \E details \in DetailsOf("canvasExtraction") :
              RecordCheckpoint(id, "canvasExtraction", details, mem)

SpecAttempts == InitLogger /\ [][NextAttempts]_vars

\* One task (img1) is started, finished with any outcome (any number of times) and
\* ended, again and again, while the clock advances; each durable write of end
\* may fail.
MaxRecords == 2        \* session files and summary lines of the persistence runs

EndFailures == {"ok", "write", "partial", "append"}

FinishOutcomes ==
    { [success |-> TRUE, skipped |-> FALSE],
      [success |-> FALSE, skipped |-> TRUE, skipReason |-> "duplicate"] }

NextSummary ==
    \/ \E id \in StartedIds : StartImageSession(id)
    \/ \E id \in StartedIds, outcome \in FinishOutcomes : RecordOutcome(id, outcome)
    \/ \E id \in StartedIds, io \in EndFailures : EndImageSessionUpTo(id, io, MaxRecords)
    \/ Tick

SpecSummary == InitLogger /\ [][NextSummary]_vars

\* One task (img1) is started, checkpointed, finished and ended, and ended again
\* when a durable write of end failed, while the clock advances.
NextRetry ==
    \/ \E id \in StartedIds : StartImageSession(id)
    \/ \E id \in StartedIds, mem \in MemoryUsages :
          RecordCheckpoint(id, "navigation", [navigationAttempt |-> 1, maxAttempts |-> 3], mem)
    \/ \E id \in StartedIds, outcome \in SessionOutcomes : RecordOutcome(id, outcome)
    \/ \E id \in StartedIds, io \in EndFailures : EndImageSessionUpTo(id, io, MaxRecords)
    \/ Tick

SpecRetry == InitLogger /\ [][NextRetry]_vars

\* Two tasks are started, finished and ended, again and again, while the clock
\* advances; no durable write fails.
NextRecords ==
    \/ \E id \in TaskIds : StartImageSession(id)
    \/ \E id \in TaskIds, outcome \in FinishOutcomes : RecordOutcome(id, outcome)
    \/ \E id \in TaskIds : EndImageSessionUpTo(id, "ok", MaxRecords)
    \/ Tick

SpecRecords == InitLogger /\ [][NextRecords]_vars

\* Two tasks run their fallback chains at one reading of the clock: each attempt
\* is begun with the next rank and under any method name, and its result is
\* recorded before the next attempt; the sessions are ended and the statistics
\* are computed at any moment.
MaxChainAttempts == 3  \* attempts over all sessions, live and persisted

AttemptDuration(imageId, rank) ==
    IF imageId = "img1"
    THEN (CASE rank = 1 -> 100 [] rank = 2 -> 200 [] OTHER -> 300)
    ELSE (CASE rank = 1 -> 50 [] rank = 2 -> 150 [] OTHER -> 250)

MethodsOf(session) ==
    IF /\ "stages" \in DOMAIN session
       /\ "canvasExtraction" \in DOMAIN session.stages
       /\ "methods" \in DOMAIN session.stages["canvasExtraction"]
    THEN session.stages["canvasExtraction"].methods
    ELSE <<>>

RECURSIVE TotalAttempts(_, _)
TotalAttempts(sessions, keys) ==
    IF keys = {} THEN 0
    ELSE LET key == CHOOSE k \in keys : TRUE
         IN  Len(MethodsOf(sessions[key])) + TotalAttempts(sessions, keys \ {key})

ChainAttempt(id) ==
    LET rank == Len(history[id].attempts) + 1
    IN  /\ Live(id)
        /\ Len(history[id].results) = Len(history[id].attempts)
        /\ TotalAttempts(currentSession, DOMAIN currentSession)
             + TotalAttempts(sessionFiles, DOMAIN sessionFiles) < MaxChainAttempts
        /\ \E name \in MethodNames :
              RecordMethodAttempt(id, name, rank, now - AttemptDuration(id, rank))

ChainResult(id) ==
    /\ Live(id)
    /\ Len(history[id].results) < Len(history[id].attempts)
    /\ \E success \in BOOLEAN :
          RecordMethodResult(id, Len(history[id].attempts), success,
                             IF success THEN NoError ELSE "timeout")

NextStats ==
    \/ \E id \in TaskIds : StartImageSession(id)
    \/ \E id \in TaskIds : ChainAttempt(id)
    \/ \E id \in TaskIds : ChainResult(id)
    \/ \E id \in TaskIds : EndImageSessionUpTo(id, "ok", MaxRecords)
    \/ GetMethodStatistics

SpecStats == InitLogger /\ [][NextStats]_vars

\* Two tasks run side by side at one reading of the clock.  A handler runs to
\* completion before the next one starts, so the tasks interleave call by call,
\* in any order.
NextInterleaved ==
    \/ \E id \in TaskIds : StartImageSession(id)
    \/ \E id \in TaskIds, mem \in MemoryUsages :
          RecordCheckpoint(id, "navigation", [navigationAttempt |-> 1, maxAttempts |-> 3], mem)
    \/ \E id \in TaskIds :
          /\ Live(id)
          /\ history[id].attempts = <<>>
          /\ RecordMethodAttempt(id, ChainMethod(1), 1, now)
    \/ \E id \in TaskIds : RecordProcessState(id, [taskNumber |-> 1, queuePosition |-> 2])
    \/ \E id \in TaskIds, outcome \in SessionOutcomes : RecordOutcome(id, outcome)
    \/ \E id \in TaskIds : EndImageSessionUpTo(id, "ok", MaxRecords)

SpecInterleaved == InitLogger /\ [][NextInterleaved]_vars

\* Task img1 runs its fallback chain and is ended; task img2 is started and ended
\* too, and the file write of its end may stop part way and leave a truncated
\* record.
NextMalformed ==
    \/ \E id \in TaskIds : StartImageSession(id)
    \/ ChainAttempt("img1")
    \/ ChainResult("img1")
    \/ EndImageSessionUpTo("img1", "ok", MaxRecords)
    \/ \E io \in {"ok", "partial"} : EndImageSessionUpTo("img2", io, MaxRecords)
    \/ GetMethodStatistics

SpecMalformed == InitLogger /\ [][NextMalformed]_vars

\* Two tasks at one reading of the clock.  Task img1 is started and every
\* operation of the tracker is called for it, whether its session is live or not;
\* the durable operations of saveDiagnostics and end may fail.  Task img2 is
\* started and ended beside it.
NextLive ==
    \/ \E id \in TaskIds : StartImageSession(id)
    \/ \E id \in StartedIds, mem \in MemoryUsages :
          RecordCheckpoint(id, "navigation", Empty, mem)
    \/ \E id \in StartedIds :
          /\ Live(id) => history[id].attempts = <<>>
          /\ RecordMethodAttempt(id, ChainMethod(1), 1, now)
    \/ \E id \in StartedIds :
          /\ Live(id) => history[id].results = <<>>
          /\ RecordMethodResult(id, 1, TRUE, NoError)
    \/ \E id \in StartedIds : RecordProcessState(id, [browserRestarts |-> 1])
    \/ \E id \in StartedIds, outcome \in SessionOutcomes : RecordOutcome(id, outcome)
    \/ \E id \in StartedIds, io \in {"ok", "mkdir"} :
          SaveDiagnostics(id, [consoleLogs |-> <<"log">>], io)
    \/ \E id \in StartedIds, io \in {"ok", "write"} : EndImageSession(id, io)
    \/ EndImageSession("img2", "ok")

SpecLive == InitLogger /\ [][NextLive]_vars

\* The pipeline that drives the manager.  A worker that completes a task enters
\* the serialized section, calls recordTaskComplete and then shouldRecycle, and
\* leaves the section; when shouldRecycle returned true the worker is replaced and
\* reset is called before any further task is counted.  While a worker is in the
\* section ("counted") or a recycle is pending ("recycling"), no other worker
\* enters it.
TaskOf(w) == IF w = 1 THEN "img1" ELSE NoId

SectionFree == \A w \in Workers : workers[w] = "working"

CompleteTask(w) ==
    /\ workers[w] = "working"
    /\ SectionFree
    /\ RecordTaskComplete
    /\ workers' = [workers EXCEPT ![w] = "counted"]

AskRecycle(w, heapUsed, monitored) ==
    /\ workers[w] = "counted"
    /\ ShouldRecycle(TaskOf(w), heapUsed, monitored)
    /\ workers' = [workers EXCEPT ![w] = IF ret' THEN "recycling" ELSE "working"]

Relaunch(w, heapUsed) ==
    /\ workers[w] = "recycling"
    /\ Reset(TaskOf(w), heapUsed)
    /\ workers' = [workers EXCEPT ![w] = "working"]

NextPipeline ==
    \/ \E w \in Workers : CompleteTask(w)
    \/ \E w \in Workers, h \in HeapSamples, m \in HeapSamples : AskRecycle(w, h, m)
    \/ \E w \in Workers, h \in HeapSamples : Relaunch(w, h)
    \/ StartImageSession("img1")

SpecPipeline == Init /\ [][NextPipeline]_vars

----------------------------------------------------------------------------
(* Claims about the recycling manager, checked under SpecRecycle *)

BelowThreshold(heapBytes) == heapBytes <= memoryThresholdMB * BytesPerMB

\* C1: with the monitored heap not above the threshold, shouldRecycle returns true
\* exactly when the number of recordTaskComplete calls since construction or the
\* last reset has reached maxTasksPerCycle.
C1_TaskLimitDecides ==
    (lastCall.op = "shouldRecycle" /\ BelowThreshold(lastCall.monitored))
        => (ret <=> completions >= maxTasksPerCycle)

\* the third completion of a cycle of three: shouldRecycle has just returned true
C1_Witness ==
    /\ lastCall.op = "shouldRecycle"
    /\ BelowThreshold(lastCall.monitored)
    /\ maxTasksPerCycle = 3
    /\ completions = 3
    /\ ret

\* C2: a monitored heap strictly above the threshold makes shouldRecycle return true
\* whatever the task counter; a heap equal to the threshold, with the counter below
\* the limit, does not.
C2_MemoryThresholdDecides ==
    lastCall.op = "shouldRecycle" =>
        /\ (lastCall.monitored > memoryThresholdMB * BytesPerMB => ret)
        /\ (lastCall.monitored = memoryThresholdMB * BytesPerMB
              /\ tasksCompleted < maxTasksPerCycle => ~ret)

C2_Witness ==
    /\ lastCall.op = "shouldRecycle"
    /\ lastCall.monitored > memoryThresholdMB * BytesPerMB
    /\ tasksCompleted < maxTasksPerCycle
    /\ ret

\* C3: right after reset getTasksCompleted is 0, and after a reset shouldRecycle with
\* memory not above the threshold returns false as long as fewer than
\* maxTasksPerCycle completions were recorded since that reset.
C3_ResetRestartsCycle ==
    /\ (lastCall.op = "reset" => getTasksCompleted = 0)
    /\ (wasReset /\ lastCall.op = "shouldRecycle" /\ BelowThreshold(lastCall.monitored)
          /\ completions < maxTasksPerCycle => ~ret)

\* after a reset and some completions, still below the limit: shouldRecycle said false
C3_Witness ==
    /\ wasReset
    /\ lastCall.op = "shouldRecycle"
    /\ BelowThreshold(lastCall.monitored)
    /\ completions >= 1
    /\ completions < maxTasksPerCycle
    /\ ~ret

\* C4 as claimed: once shouldRecycle has returned true (for either reason), every
\* later shouldRecycle before the next reset returns true.
C4_ExhaustedUntilReset ==
    (lastCall.op = "shouldRecycle" /\ lastCall.before # "no") => ret

\* C4 as amended: once shouldRecycle has returned true because the task counter
\* reached the limit, every later shouldRecycle before the next reset returns true.
C4_TaskLimitSticky ==
    (lastCall.op = "shouldRecycle" /\ lastCall.before = "task") => ret

\* a later call, after further completions, of a manager exhausted by the task limit
C4_Witness ==
    /\ lastCall.op = "shouldRecycle"
    /\ lastCall.before = "task"
    /\ BelowThreshold(lastCall.monitored)
    /\ completions > maxTasksPerCycle
    /\ maxTasksPerCycle >= 1
    /\ ret

----------------------------------------------------------------------------
(* Claims about the session tracker *)

\* a step that is a call of an operation (Tick is the only step that is none)
CallStep == now' = now

Range(seq) == {seq[i] : i \in 1..Len(seq)}

FreshSession(imageId, startTime) ==
    [imageId |-> imageId, jobId |-> JobId, url |-> Url, startTime |-> startTime,
     stages |-> Empty, processState |-> [browserRestarts |-> 0],
     outcome |-> [success |-> FALSE]]

\* C5 as claimed: startImageSession for a task id that has a live session leaves
\* that session (start time, stages, attempts, process state, outcome, diagnostics)
\* unchanged.  Checked under SpecSession.
C5_StartOnLiveIsNoOp ==
    [][(CallStep /\ lastCall'.op = "startImageSession"
          /\ lastCall'.imageId \in DOMAIN currentSession)
         => currentSession' = currentSession]_vars

\* C5 as amended: startImageSession for a task id that has a live session replaces
\* that session by a new one (start time now, no stages, browserRestarts 0, outcome
\* success false, no end time, no diagnostics) and leaves every other session alone.
C5_StartReplacesSession ==
    [][(CallStep /\ lastCall'.op = "startImageSession"
          /\ lastCall'.imageId \in DOMAIN currentSession)
         => /\ DOMAIN currentSession' = DOMAIN currentSession
            /\ currentSession'[lastCall'.imageId] = FreshSession(lastCall'.imageId, now)
            /\ \A id \in DOMAIN currentSession \ {lastCall'.imageId} :
                  currentSession'[id] = currentSession[id]]_vars

\* a session started again, at a later reading of the clock than its first start
C5_Witness ==
    /\ lastCall.op = "startImageSession"
    /\ lastCall.found
    /\ Live(lastCall.imageId)
    /\ currentSession[lastCall.imageId].startTime > 1
    /\ currentSession[lastCall.imageId].stages = Empty

SessionOps == {"recordCheckpoint", "recordMethodAttempt", "recordMethodResult",
               "recordProcessState", "recordOutcome", "saveDiagnostics",
               "endImageSession"}

\* C6: checkpoint, beginAttempt, recordAttemptResult, mergeProcessState, finish,
\* saveDiagnostics and end, called for a task id that has no live session, raise no
\* error and leave the live sessions, the session files, the summary log and the
\* diagnostic artifacts unchanged.  Checked under SpecMissing.
C6_MissingSessionIsNoOp ==
    [][(CallStep /\ lastCall'.op \in SessionOps
          /\ lastCall'.imageId \notin DOMAIN currentSession)
         => /\ UNCHANGED <<currentSession, sessionFiles, summary, artifacts>>
            /\ ~threw']_vars

\* saveDiagnostics for a task that has no session, while another task is live and a
\* session has been persisted
C6_Witness ==
    /\ lastCall.op = "saveDiagnostics"
    /\ ~lastCall.found
    /\ ~threw
    /\ currentSession # Empty
    /\ summary # <<>>
    /\ sessionFiles # Empty
    /\ artifacts = {}

\* the end call of this step wrote the session file of a live session
EndPersists ==
    /\ CallStep
    /\ lastCall'.op = "endImageSession"
    /\ lastCall'.imageId \in DOMAIN currentSession
    /\ lastCall'.io # "write"

Persisted == sessionFiles'[<<lastCall'.imageId, now>>]

\* C8 as claimed: the session persisted by end holds exactly the stage names that
\* were checkpointed, each with 0 <= elapsed <= the total duration, however the
\* checkpoints were interleaved with finish.  Checked under SpecSession.
C8_CheckpointsWithinDuration ==
    [][EndPersists =>
         /\ DOMAIN Persisted.stages = history[lastCall'.imageId].checkpoints
         /\ \A stage \in DOMAIN Persisted.stages :
               /\ Persisted.stages[stage].elapsed >= 0
               /\ Persisted.stages[stage].elapsed <= Persisted.totalDuration]_vars

\* C8 as amended: the session persisted by end holds exactly the stage names that
\* were checkpointed, each with elapsed >= 0; elapsed <= the total duration holds
\* when no checkpoint was made at a later reading of the clock than the end time the
\* session then held (set by finish, or by an end whose write failed) without a
\* finish after it.
C8_CheckpointsBeforeEndTime ==
    [][EndPersists =>
         /\ DOMAIN Persisted.stages = history[lastCall'.imageId].checkpoints
         /\ \A stage \in DOMAIN Persisted.stages :
               /\ Persisted.stages[stage].elapsed >= 0
               /\ ~history[lastCall'.imageId].late
                    => Persisted.stages[stage].elapsed <= Persisted.totalDuration]_vars

\* a persisted session with two checkpointed stages, one of them later than the
\* start, and an outcome recorded by finish
C8_Witness ==
    \E file \in DOMAIN sessionFiles :
        /\ DOMAIN sessionFiles[file].stages = SessionStages
        /\ \E stage \in SessionStages : sessionFiles[file].stages[stage].elapsed > 0
        /\ sessionFiles[file].outcome.success
        /\ \A stage \in SessionStages :
              sessionFiles[file].stages[stage].elapsed <= sessionFiles[file].totalDuration

\* C10: an end that returns removes the session from the live set, and a further
\* end for that task id, with no start in between, writes no session file, appends
\* no summary line, changes no live session and raises no error.  Checked under
\* SpecSession.
C10_EndRemovesAndIsIdempotent ==
    [][(CallStep /\ lastCall'.op = "endImageSession")
         => /\ ~threw' => lastCall'.imageId \notin DOMAIN currentSession'
            /\ (lastCall'.imageId \notin DOMAIN currentSession
                  /\ \E file \in DOMAIN sessionFiles : file[1] = lastCall'.imageId)
                 => /\ UNCHANGED <<currentSession, sessionFiles, summary>>
                    /\ ~threw']_vars

\* the second end of a task whose session was persisted by the first
C10_Witness ==
    /\ lastCall.op = "endImageSession"
    /\ ~lastCall.found
    /\ ~threw
    /\ lastCall.imageId \notin DOMAIN currentSession
    /\ \E file \in DOMAIN sessionFiles : file[1] = lastCall.imageId
    /\ Len(summary) = 1

\* the canvasExtraction stage of a live session
Canvas(imageId) == currentSession[imageId].stages["canvasExtraction"]

\* beginAttempt was called for the ranks 1..N (N >= 1), then recordAttemptResult
\* once for each rank, and no checkpoint named the canvasExtraction stage
ChainRecorded(imageId) ==
    LET h == history[imageId]
        N == Len(h.attempts)
    IN  /\ N >= 1
        /\ Range(h.attempts) = 1..N
        /\ Len(h.results) = N
        /\ {h.results[i].rank : i \in 1..N} = 1..N
        /\ h.orderly
        /\ "canvasExtraction" \notin h.checkpoints

SuccessfulRanks(imageId) ==
    {r.rank : r \in {x \in Range(history[imageId].results) : x.success}}

\* the rank of the result recorded last among the successful ones
LastSuccessfulRank(imageId) ==
    LET results == history[imageId].results
        last == CHOOSE i \in 1..Len(results) :
                    /\ results[i].success
                    /\ \A j \in 1..Len(results) : results[j].success => j <= i
    IN  results[last].rank

NameOfRank(imageId, rank) ==
    LET methods == Canvas(imageId).methods
    IN  methods[CHOOSE i \in 1..Len(methods) : methods[i].methodNumber = rank].methodName

Min(S) == CHOOSE x \in S : \A y \in S : x <= y

\* C7 as claimed: after beginAttempt for ranks 1..N and one recordAttemptResult per
\* rank, the methods list has length N and successfulMethod is the name of the
\* lowest-ranked successful attempt, or is unset when none succeeded.  Checked under
\* SpecAttempts.
C7_LowestRankedSuccess ==
    \A id \in DOMAIN currentSession :
        ChainRecorded(id) =>
            /\ Len(Canvas(id).methods) = Len(history[id].attempts)
            /\ IF SuccessfulRanks(id) = {}
               THEN "successfulMethod" \notin DOMAIN Canvas(id)
               ELSE /\ "successfulMethod" \in DOMAIN Canvas(id)
                    /\ Canvas(id).successfulMethod = NameOfRank(id, Min(SuccessfulRanks(id)))

\* C7 as amended: the methods list has length N and successfulMethod is the name
\* of the attempt whose successful result was recorded last, or is unset when none
\* succeeded.
C7_LastRecordedSuccess ==
    \A id \in DOMAIN currentSession :
        ChainRecorded(id) =>
            /\ Len(Canvas(id).methods) = Len(history[id].attempts)
            /\ IF SuccessfulRanks(id) = {}
               THEN "successfulMethod" \notin DOMAIN Canvas(id)
               ELSE /\ "successfulMethod" \in DOMAIN Canvas(id)
                    /\ Canvas(id).successfulMethod = NameOfRank(id, LastSuccessfulRank(id))

\* ranks 1 and 2 under different names, both successful, the result of rank 1
\* recorded first: successfulMethod names rank 2
C7_Witness ==
    \E id \in DOMAIN currentSession :
        /\ ChainRecorded(id)
        /\ Len(history[id].attempts) = 2
        /\ SuccessfulRanks(id) = {1, 2}
        /\ history[id].results[1].rank = 1
        /\ NameOfRank(id, 1) # NameOfRank(id, 2)
        /\ Canvas(id).successfulMethod = NameOfRank(id, 2)

\* C9: recordAttemptResult for a rank for which no beginAttempt was made in the
\* live session leaves the session unchanged and raises no error.  Checked under
\* SpecAttempts.
C9_ResultForRankNeverBegun ==
    [][(CallStep /\ lastCall'.op = "recordMethodResult"
          /\ lastCall'.imageId \in DOMAIN currentSession
          /\ lastCall'.methodNumber \notin Range(history[lastCall'.imageId].attempts))
         => /\ currentSession' = currentSession
            /\ ~threw']_vars

\* C9 where the canvasExtraction stage, if any, holds a methods list: the call is
\* the no-op the claim describes
C9_ResultForRankNeverBegunOnMethodsList ==
    [][(CallStep /\ lastCall'.op = "recordMethodResult"
          /\ lastCall'.imageId \in DOMAIN currentSession
          /\ lastCall'.methodNumber \notin Range(history[lastCall'.imageId].attempts)
          /\ ("canvasExtraction" \in DOMAIN currentSession[lastCall'.imageId].stages
                => "methods" \in DOMAIN Canvas(lastCall'.imageId)))
         => /\ currentSession' = currentSession
            /\ ~threw']_vars

----------------------------------------------------------------------------
(* Claims about persistence *)

\* the call of this step is an end of a live session that returns
EndCompletes ==
    /\ CallStep
    /\ lastCall'.op = "endImageSession"
    /\ lastCall'.imageId \in DOMAIN currentSession
    /\ ~threw'

\* C11: every end of a live session that returns appends exactly one line to the
\* summary log and no other step changes the log, so the lines count the ends; the
\* line's success and skipped are those of the most recent finish of the session,
\* and without a finish success is false and skipped is absent.  Checked under
\* SpecSummary.
C11_OneSummaryLinePerEnd ==
    [][IF EndCompletes
       THEN /\ Len(summary') = Len(summary) + 1
            /\ SubSeq(summary', 1, Len(summary)) = summary
            /\ LET line == summary'[Len(summary')]
                   finish == history[lastCall'.imageId].finish
                   outcome == IF finish = <<>> THEN [success |-> FALSE] ELSE finish[1]
               IN  /\ line.imageId = lastCall'.imageId
                   /\ line.success = outcome.success
                   /\ Optional("skipped", line, "skipped")
                        = Optional("skipped", outcome, "skipped")
       ELSE summary' = summary]_vars

\* two lines: one of a session finished as skipped, one of a session that succeeded
C11_Witness ==
    /\ lastCall.op = "endImageSession"
    /\ lastCall.found
    /\ ~threw
    /\ Len(summary) = 2
    /\ \E i, j \in 1..2 :
          /\ summary[i].success
          /\ "skipped" \in DOMAIN summary[j]
          /\ summary[j].skipped
          /\ ~summary[j].success

\* C12: every end of a live session creates its record under a key that no earlier
\* record uses, so no earlier record is overwritten and the records count the
\* ends, also when one task id is started and ended repeatedly and when sessions
\* are ended at the same clock value.  Checked under SpecRecords.
C12_RecordsNeverCollide ==
    [][EndCompletes =>
         /\ SessionFile(lastCall'.imageId) \notin DOMAIN sessionFiles
         /\ \A file \in DOMAIN sessionFiles : sessionFiles'[file] = sessionFiles[file]
         /\ Cardinality(DOMAIN sessionFiles') = Len(summary')]_vars

\* C12 for an end at a clock value at which no record of that task id was written:
\* the record is new and the earlier ones are kept
C12_RecordsOfDistinctTimesKept ==
    [][(EndCompletes /\ SessionFile(lastCall'.imageId) \notin DOMAIN sessionFiles) =>
         /\ DOMAIN sessionFiles' = DOMAIN sessionFiles \cup {SessionFile(lastCall'.imageId)}
         /\ \A file \in DOMAIN sessionFiles : sessionFiles'[file] = sessionFiles[file]]_vars

----------------------------------------------------------------------------
(* Claims about the statistics *)

\* the attempts in the persisted records, as <<file, index>>, and those of a name
Recorded ==
    {x \in (DOMAIN sessionFiles) \X (1..MaxChainAttempts) :
        x[2] <= Len(MethodsOf(sessionFiles[x[1]]))}

RecordedAttempt(x) == MethodsOf(sessionFiles[x[1]])[x[2]]

RecordedAs(name) == {x \in Recorded : RecordedAttempt(x).methodName = name}

RECURSIVE SumOfDurations(_)
SumOfDurations(S) ==
    IF S = {} THEN 0
    ELSE LET x == CHOOSE y \in S : TRUE
         IN  (IF "duration" \in DOMAIN RecordedAttempt(x)
              THEN RecordedAttempt(x).duration ELSE 0) + SumOfDurations(S \ {x})

\* C13: getMethodStatistics reports, for every method name in the persisted
\* records, attempts = the attempts of that name over all records, successes and
\* failures = those with success true and false, and average duration = the sum
\* of their durations over attempts.  Checked under SpecStats.
C13_StatisticsPerMethod ==
    lastCall.op = "getMethodStatistics" =>
        /\ ~threw
        /\ \A x \in Recorded :
              LET name == RecordedAttempt(x).methodName
                  S == RecordedAs(name)
              IN  /\ "methodStatistics" \in DOMAIN lastCall.result
                  /\ name \in DOMAIN lastCall.result.methodStatistics
                  /\ LET stats == lastCall.result.methodStatistics[name]
                     IN  /\ stats.attempts = Cardinality(S)
                         /\ stats.successes =
                              Cardinality({y \in S : RecordedAttempt(y).success})
                         /\ stats.failures =
                              Cardinality({y \in S : ~RecordedAttempt(y).success})
                         /\ stats.attempts = stats.successes + stats.failures
                         /\ stats.avgDuration = <<SumOfDurations(S), stats.attempts>>

\* viewport-render tried three times over two records: successful in 100 and
\* 200 ms, failed in 50 ms
C13_Witness ==
    /\ lastCall.op = "getMethodStatistics"
    /\ ~threw
    /\ Cardinality(DOMAIN sessionFiles) = 2
    /\ "methodStatistics" \in DOMAIN lastCall.result
    /\ "viewport-render" \in DOMAIN lastCall.result.methodStatistics
    /\ LET stats == lastCall.result.methodStatistics["viewport-render"]
       IN  /\ stats.attempts = 3
           /\ stats.successes = 2
           /\ stats.failures = 1
           /\ stats.avgDuration = <<350, 3>>

\* C14: with a malformed record among the persisted ones, getMethodStatistics
\* raises no error and returns the statistics of the well-formed records.  Checked
\* under SpecMalformed.
C14_MalformedRecordSkipped ==
    (/\ lastCall.op = "getMethodStatistics"
     /\ summary # <<>>
     /\ \E file \in DOMAIN sessionFiles : ~WellFormed(sessionFiles[file]))
        => /\ ~threw
           /\ "result" \in DOMAIN lastCall
           /\ "methodStatistics" \in DOMAIN lastCall.result
           /\ \A x \in Recorded :
                 LET name == RecordedAttempt(x).methodName
                 IN  /\ name \in DOMAIN lastCall.result.methodStatistics
                     /\ lastCall.result.methodStatistics[name].attempts
                          = Cardinality(RecordedAs(name))

\* C14 where every record is well formed: no error, and the statistics cover
\* every record
C14_WellFormedRecordsCounted ==
    (/\ lastCall.op = "getMethodStatistics"
     /\ summary # <<>>
     /\ \A file \in DOMAIN sessionFiles : WellFormed(sessionFiles[file]))
        => /\ ~threw
           /\ "methodStatistics" \in DOMAIN lastCall.result
           /\ \A x \in Recorded :
                 LET name == RecordedAttempt(x).methodName
                 IN  /\ name \in DOMAIN lastCall.result.methodStatistics
                     /\ lastCall.result.methodStatistics[name].attempts
                          = Cardinality(RecordedAs(name))

----------------------------------------------------------------------------
(* Claims about the ranks of the attempts *)

StrictlyIncreasing(seq) == \A i, j \in 1..Len(seq) : i < j => seq[i] < seq[j]

HasMethods(imageId) ==
    /\ "canvasExtraction" \in DOMAIN currentSession[imageId].stages
    /\ "methods" \in DOMAIN Canvas(imageId)

\* the ranks of the methods list, in the order of the list
RanksOf(imageId) ==
    [i \in 1..Len(Canvas(imageId).methods) |-> Canvas(imageId).methods[i].methodNumber]

\* C15 as claimed: the ranks of the attempts of a live session are pairwise
\* distinct and strictly increasing in the order of the list, whatever
\* beginAttempt calls were made.  Checked under SpecAttempts.
C15_RanksStrictlyIncreasing ==
    \A id \in DOMAIN currentSession :
        HasMethods(id) => StrictlyIncreasing(RanksOf(id))

\* C15 as amended: the list holds the ranks that were passed to beginAttempt, in
\* the order of the calls (all of them when no checkpoint named the
\* canvasExtraction stage), so they are strictly increasing, and pairwise
\* distinct, whenever the ranks were passed in strictly increasing order.
C15_RanksInCallOrder ==
    \A id \in DOMAIN currentSession :
        HasMethods(id) =>
            /\ "canvasExtraction" \notin history[id].checkpoints
                  => RanksOf(id) = history[id].attempts
            /\ StrictlyIncreasing(history[id].attempts)
                  => StrictlyIncreasing(RanksOf(id))

\* ranks 1 and 2 begun in this order
C15_Witness ==
    \E id \in DOMAIN currentSession :
        /\ HasMethods(id)
        /\ history[id].attempts = <<1, 2>>
        /\ RanksOf(id) = <<1, 2>>

----------------------------------------------------------------------------
(* Claims about a failed end *)

\* the call of this step is an end of a live session whose durable write raises
EndFails ==
    /\ CallStep
    /\ lastCall'.op = "endImageSession"
    /\ lastCall'.imageId \in DOMAIN currentSession
    /\ lastCall'.io # "ok"

\* stages (with the attempts they hold), process state and outcome
RecordedParts(session) == <<session.stages, session.processState, session.outcome>>

\* C16: an end whose record write or summary append raises propagates the error,
\* keeps the session live with its stages, attempts, process state and outcome
\* unchanged, and an end that then returns persists that session and removes it.
\* Checked under SpecRetry.
C16_FailedEndKeepsSession ==
    [][/\ EndFails =>
            /\ threw'
            /\ DOMAIN currentSession' = DOMAIN currentSession
            /\ RecordedParts(currentSession'[lastCall'.imageId])
                 = RecordedParts(currentSession[lastCall'.imageId])
            /\ currentSession'[lastCall'.imageId].startTime
                 = currentSession[lastCall'.imageId].startTime
            /\ summary' = summary
       /\ EndCompletes =>
            /\ SessionFile(lastCall'.imageId) \in DOMAIN sessionFiles'
            /\ WellFormed(sessionFiles'[SessionFile(lastCall'.imageId)])
            /\ RecordedParts(Parse(sessionFiles'[SessionFile(lastCall'.imageId)]))
                 = RecordedParts(currentSession[lastCall'.imageId])
            /\ lastCall'.imageId \notin DOMAIN currentSession']_vars

\* the only session ever started was checkpointed, its end left a truncated
\* record, and the retry at a later reading of the clock persisted it
C16_Witness ==
    /\ lastCall.op = "endImageSession"
    /\ lastCall.found
    /\ ~threw
    /\ started = 1
    /\ Len(summary) = 1
    /\ \E file \in DOMAIN sessionFiles : ~WellFormed(sessionFiles[file])
    /\ WellFormed(sessionFiles[<<lastCall.imageId, now>>])
    /\ "navigation" \in DOMAIN sessionFiles[<<lastCall.imageId, now>>].stages

----------------------------------------------------------------------------
(* Claims about the recycle decision, checked under SpecRecycle *)

\* the session of the task id passed to the call, when it is live
Decided == currentSession[lastCall.imageId]

\* C17: when shouldRecycle returns true the reason reported (logged, and recorded
\* in the process state of the task's live session) is the task limit whenever
\* the counter has reached maxTasksPerCycle, also with memory above the threshold,
\* and the memory threshold only when the counter is below the limit.
C17_TaskLimitReportedFirst ==
    (lastCall.op = "shouldRecycle" /\ ret) =>
        /\ tasksCompleted >= maxTasksPerCycle => lastCall.reason = "task limit"
        /\ lastCall.reason = "memory threshold"
              <=> (tasksCompleted < maxTasksPerCycle /\ ~BelowThreshold(lastCall.monitored))
        /\ lastCall.reason \in {"task limit", "memory threshold"}
        /\ Live(lastCall.imageId) => Decided.processState.recycleReason[1] = lastCall.reason

\* both the task limit and the memory threshold are exceeded, for a live session
C17_Witness ==
    /\ lastCall.op = "shouldRecycle"
    /\ ret
    /\ maxTasksPerCycle >= 1
    /\ tasksCompleted >= maxTasksPerCycle
    /\ ~BelowThreshold(lastCall.monitored)
    /\ Live(lastCall.imageId)
    /\ Decided.processState.recycleReason[1] = "task limit"

DecisionFields == {"taskNumber", "memoryMB", "recycleReason", "willRecycle"}

\* C18: shouldRecycle(taskId) writes the process state of the live session of
\* taskId exactly when it returns true: taskNumber is the task counter, with the
\* memory, the reason and the restart flag, and every other field of the process
\* state and of the session is kept; when it returns false, or no task id is
\* given, no session changes; the task counter never changes.
C18_DecisionRecordedWhenTrue ==
    [][(CallStep /\ lastCall'.op = "shouldRecycle") =>
         /\ tasksCompleted' = tasksCompleted
         /\ DOMAIN currentSession' = DOMAIN currentSession
         /\ \A id \in DOMAIN currentSession :
               IF ret' /\ id = lastCall'.imageId
               THEN LET old == currentSession[id]
                        new == currentSession'[id]
                    IN  /\ new.processState.taskNumber = tasksCompleted
                        /\ new.processState.recycleReason[1] = lastCall'.reason
                        /\ new.processState.willRecycle
                        /\ new.processState.memoryMB \in HeapSamples
                        /\ DOMAIN new.processState
                             = DOMAIN old.processState \cup DecisionFields
                        /\ \A k \in DOMAIN old.processState \ DecisionFields :
                              new.processState[k] = old.processState[k]
                        /\ DOMAIN new = DOMAIN old
                        /\ \A k \in DOMAIN old \ {"processState"} : new[k] = old[k]
               ELSE currentSession'[id] = currentSession[id]]_vars

\* the decision of the second task of the cycle is recorded in a session whose
\* process state holds the restart counter of start and the fields of a reset
C18_Witness ==
    /\ lastCall.op = "shouldRecycle"
    /\ ret
    /\ Live(lastCall.imageId)
    /\ Decided.processState.taskNumber = 2
    /\ Decided.processState.willRecycle
    /\ Decided.processState.browserRestarts = 0
    /\ "previousTasksCompleted" \in DOMAIN Decided.processState

----------------------------------------------------------------------------
(* Claims about tasks running side by side *)

\* what the calls made for a task since its start determine of its session: the
\* outcome of the last finish, the stages checkpointed or created by an attempt,
\* the ranks of the attempts
OwnCallsDecide(imageId) ==
    LET session == currentSession[imageId]
        h == history[imageId]
    IN  /\ session.outcome = IF h.finish = <<>> THEN [success |-> FALSE] ELSE h.finish[1]
        /\ DOMAIN session.stages =
              h.checkpoints \cup (IF h.attempts = <<>> THEN {} ELSE {"canvasExtraction"})
        /\ h.attempts # <<>> => RanksOf(imageId) = h.attempts

\* C19: in any interleaving of the calls made for distinct task ids, a call for
\* one task leaves the live session of every other task unchanged, the session of
\* a task holds what the calls made for that task put there, and the record
\* persisted by end holds the stages, attempts, process state and outcome of that
\* session.  Checked under SpecInterleaved.
C19_TasksDoNotInterfere ==
    [][CallStep =>
         /\ \A other \in DOMAIN currentSession \ {lastCall'.imageId} :
               /\ other \in DOMAIN currentSession'
               /\ currentSession'[other] = currentSession[other]
         /\ \A id \in DOMAIN currentSession' : OwnCallsDecide(id)'
         /\ EndCompletes =>
               RecordedParts(Parse(sessionFiles'[SessionFile(lastCall'.imageId)]))
                 = RecordedParts(currentSession[lastCall'.imageId])]_vars

\* both tasks were persisted: img1 checkpointed and finished, with an attempt and
\* a merged process state; img2 with nothing recorded
C19_Witness ==
    /\ {<<"img1", now>>, <<"img2", now>>} \subseteq DOMAIN sessionFiles
    /\ DOMAIN sessionFiles[<<"img1", now>>].stages = {"navigation", "canvasExtraction"}
    /\ sessionFiles[<<"img1", now>>].outcome.success
    /\ Len(sessionFiles[<<"img1", now>>].stages["canvasExtraction"].methods) = 1
    /\ "taskNumber" \in DOMAIN sessionFiles[<<"img1", now>>].processState
    /\ sessionFiles[<<"img1", now>>].processState.taskNumber = 1
    /\ sessionFiles[<<"img2", now>>].stages = Empty
    /\ ~sessionFiles[<<"img2", now>>].outcome.success

----------------------------------------------------------------------------
(* Claims about the live set *)

\* C20: a task id is in the live set exactly from its start until its end: only a
\* startImageSession for that id adds it, only an endImageSession for that id that
\* returns removes it, every start leaves its id live and every end that returns
\* leaves its id not live; so checkpoint, beginAttempt, recordAttemptResult,
\* mergeProcessState, finish, saveDiagnostics, a failing end, the operations of
\* another task and the passing of time neither add nor remove a session.
\* Checked under SpecLive.
C20_LiveFromStartUntilEnd ==
    [][\A id \in TaskIds :
          /\ (id \notin DOMAIN currentSession /\ id \in DOMAIN currentSession')
                => /\ CallStep
                   /\ lastCall'.op = "startImageSession"
                   /\ lastCall'.imageId = id
          /\ (id \in DOMAIN currentSession /\ id \notin DOMAIN currentSession')
                => /\ CallStep
                   /\ lastCall'.op = "endImageSession"
                   /\ lastCall'.imageId = id
                   /\ ~threw'
          /\ (CallStep /\ lastCall'.op = "startImageSession" /\ lastCall'.imageId = id)
                => id \in DOMAIN currentSession'
          /\ (CallStep /\ lastCall'.op = "endImageSession" /\ lastCall'.imageId = id
                 /\ ~threw')
                => id \notin DOMAIN currentSession']_vars

\* img1, started, checkpointed, given an attempt, finished and given
\* diagnostics, is still live after img2 was started and ended
C20_Witness ==
    /\ lastCall.op = "endImageSession"
    /\ lastCall.imageId = "img2"
    /\ lastCall.found
    /\ ~threw
    /\ DOMAIN currentSession = {"img1"}
    /\ started = 2
    /\ DOMAIN currentSession["img1"].stages = {"navigation", "canvasExtraction"}
    /\ "endTime" \in DOMAIN currentSession["img1"]
    /\ "diagnostics" \in DOMAIN currentSession["img1"]
    /\ DOMAIN sessionFiles = {<<"img2", now>>}
    /\ artifacts # {}

----------------------------------------------------------------------------
(* Claims about the pipeline that drives the manager, checked under SpecPipeline *)

\* C21: when every completed task is counted by recordTaskComplete followed by
\* shouldRecycle as one serialized step, and reset is called before the next task
\* is counted whenever shouldRecycle returned true, the task counter never exceeds
\* maxTasksPerCycle, for maxTasksPerCycle >= 1 and whichever worker completes
\* each task.
C21_CounterWithinCycle ==
    maxTasksPerCycle >= 1 => tasksCompleted <= maxTasksPerCycle

\* the second worker has counted the task that fills a cycle of two tasks, after
\* the first worker counted one and was told not to recycle
C21_Witness ==
    /\ maxTasksPerCycle = 2
    /\ tasksCompleted = 2
    /\ workers[2] = "counted"
    /\ workers[1] = "working"
    /\ ~wasReset

----------------------------------------------------------------------------
(* Claims about the attempt counter, checked under SpecAttempts *)

HasCanvas(imageId) == "canvasExtraction" \in DOMAIN currentSession[imageId].stages

\* C22: in every reachable state of a live session in which the canvasExtraction
\* stage exists, the stage holds a methods list and a totalAttempts equal to the
\* number of entries of that list, whatever checkpoint, beginAttempt and
\* recordAttemptResult calls were made, a checkpoint that names the
\* canvasExtraction stage included.
C22_TotalAttemptsCountsMethods ==
    \A id \in DOMAIN currentSession :
        HasCanvas(id) =>
            /\ {"totalAttempts", "methods"} \subseteq DOMAIN Canvas(id)
            /\ Canvas(id).totalAttempts = Len(Canvas(id).methods)

\* C22, on the stages that hold a methods list (those made by beginAttempt, or by
\* a checkpoint whose details give both fields in agreement): totalAttempts is
\* the number of entries of the list.
C22_CountsMethodsOfStageWithList ==
    \A id \in DOMAIN currentSession :
        (HasCanvas(id) /\ "methods" \in DOMAIN Canvas(id)) =>
            /\ "totalAttempts" \in DOMAIN Canvas(id)
            /\ Canvas(id).totalAttempts = Len(Canvas(id).methods)

====
